---- MODULE Spec2Model ----
(***************************************************************************)
(* Value-type layer of nautilus_core: the UnixNanos timestamp              *)
(* (core/src/nanos.rs) and the CryptoPerpetual instrument                  *)
(* (model/src/instruments/crypto_perpetual.rs).                            *)
(*                                                                         *)
(* Two specifications share the variables:                                 *)
(*   Spec       exercises the instrument constructors, equality, hashing   *)
(*              and the conversion into InstrumentAny;                     *)
(*   SpecNanos  exercises the timestamp conversions, comparisons and       *)
(*              arithmetic.                                                *)
(***************************************************************************)
EXTENDS Integers, Sequences, FiniteSets, TLC

(***************************************************************************)
(* Bounds                                                                  *)
(***************************************************************************)
\* u64 is modelled with Width bits; arithmetic wraps modulo 2^Width.
Width == 3
\* precisions (u8) range over 0..MaxPrecision
MaxPrecision == 1
\* raw fixed-point values: Price.raw (i64) over -1..MaxRaw, Quantity.raw (u64) over 0..MaxRaw
MaxRaw == 1
\* raw timestamps of an instrument's ts_event / ts_init range over 0..MaxTs
MaxTs == 1

Modulus == 2 ^ Width
U64 == 0 .. (Modulus - 1)

(***************************************************************************)
(* Option<T> and Result<T, E>                                              *)
(***************************************************************************)
None == [some |-> FALSE]
Some(v) == [some |-> TRUE, value |-> v]
Option(S) == {None} \cup {Some(v) : v \in S}

Ok(v) == [tag |-> "Ok", value |-> v]
Err(e) == [tag |-> "Err", error |-> e]
Panic(m) == [tag |-> "Panic", message |-> m]

VARIABLES
    \* ---- instrument side ----
    input,            \* the arguments handed to the constructors
    qty_one,          \* the value of Quantity::from(1)
    inst,             \* Option<CryptoPerpetual>: the instrument the caller holds
    result,           \* record of the last instrument operation
    \* ---- timestamp side ----
    overflow_checks,  \* build profile: TRUE = integer overflow panics, FALSE = it wraps
    ts,               \* the UnixNanos value the caller holds
    nres              \* record of the last timestamp operation

vars == <<input, qty_one, inst, result, overflow_checks, ts, nres>>
ivars == <<input, qty_one, inst, result>>
nvars == <<overflow_checks, ts, nres>>

(***************************************************************************)
(* nanos.rs                                                                *)
(***************************************************************************)
\* pub struct UnixNanos(u64): a tuple struct with the single field .0
UnixNanos(v) == <<v>>

from(value) == UnixNanos(value)

as_u64(self) == self[1]

\* impl From<UnixNanos> for u64
into_u64(value) == value[1]

\* Ordering of two u64, as u64::partial_cmp gives it
u64_partial_cmp(a, b) ==
    Some(IF a < b THEN "Less" ELSE IF a = b THEN "Equal" ELSE "Greater")

\* #[derive(PartialEq, Eq)]: field-wise equality
UnixNanos_eq(self, other) == self[1] = other[1]

\* #[derive(PartialOrd, Ord)]: field-wise ordering
UnixNanos_partial_cmp(self, other) == u64_partial_cmp(self[1], other[1])

\* impl PartialEq<u64> for UnixNanos
eq_u64(self, other) == self[1] = other

\* the operands of the comparison swapped
partial_cmp_u64_swapped(self, other) == u64_partial_cmp(other, self[1])

\* impl PartialOrd<u64> for UnixNanos
partial_cmp_u64(self, other) == u64_partial_cmp(self[1], other)

\* impl PartialEq<Option<u64>> for UnixNanos
eq_option(self, other) ==
    IF other.some THEN self[1] = other.value ELSE FALSE

\* absence ordered above the present value
partial_cmp_option_absent_above(self, other) ==
    IF other.some THEN u64_partial_cmp(self[1], other.value) ELSE Some("Less")

\* impl PartialOrd<Option<u64>> for UnixNanos
partial_cmp_option(self, other) ==
    IF other.some THEN u64_partial_cmp(self[1], other.value) ELSE Some("Greater")

\* the provided methods of PartialEq / PartialOrd, from the verdict of eq / partial_cmp
ne(e) == ~e
lt(c) == c = Some("Less")
le(c) == c = Some("Less") \/ c = Some("Equal")
gt(c) == c = Some("Greater")
ge(c) == c = Some("Greater") \/ c = Some("Equal")

\* u64 `+`, `-`, `*`: with overflow checks the operation panics when the
\* mathematical result is not a u64, without them it wraps modulo 2^w.
u64_add(a, b, checks) ==
    IF a + b >= Modulus
    THEN IF checks THEN Panic("attempt to add with overflow") ELSE Ok((a + b) % Modulus)
    ELSE Ok(a + b)

u64_sub(a, b, checks) ==
    IF a - b < 0
    THEN IF checks THEN Panic("attempt to subtract with overflow") ELSE Ok((a - b) % Modulus)
    ELSE Ok(a - b)

u64_mul(a, b, checks) ==
    IF a * b >= Modulus
    THEN IF checks THEN Panic("attempt to multiply with overflow") ELSE Ok((a * b) % Modulus)
    ELSE Ok(a * b)

\* wrap the u64 outcome r back into a UnixNanos
Wrapped(r) == IF r.tag = "Ok" THEN Ok(UnixNanos(r.value)) ELSE r

\* impl Add for UnixNanos
add(self, rhs, checks) == Wrapped(u64_add(self[1], rhs[1], checks))

\* impl Sub for UnixNanos
sub(self, rhs, checks) == Wrapped(u64_sub(self[1], rhs[1], checks))

\* impl<T: Into<u64>> AddAssign<T> for UnixNanos (other already converted with into())
add_assign(self, other, checks) == Wrapped(u64_add(self[1], other, checks))

\* impl<T: Into<u64>> SubAssign<T> for UnixNanos
sub_assign(self, other, checks) == Wrapped(u64_sub(self[1], other, checks))

\* `+=` written where `*=` is meant
mul_assign_adds(self, other, checks) == Wrapped(u64_add(self[1], other, checks))

\* impl<T: Into<u64>> MulAssign<T> for UnixNanos
mul_assign(self, other, checks) == Wrapped(u64_mul(self[1], other, checks))

(***************************************************************************)
(* Timestamp machine                                                       *)
(***************************************************************************)
NoOp == [op |-> "none", lhs |-> <<>>, rhs |-> <<>>, out |-> Ok(<<>>)]

\* a panic unwinds the caller: nothing runs after it
Panicked == nres.out.tag = "Panic"

InitNanosVars ==
    /\ overflow_checks \in BOOLEAN
    /\ ts \in {UnixNanos(v) : v \in U64}
    /\ nres = NoOp

\* let t = UnixNanos::from(v)
From(v) ==
    /\ ~Panicked
    /\ ts' = from(v)
    /\ nres' = [op |-> "from", lhs |-> ts, rhs |-> v, out |-> Ok(from(v))]
    /\ UNCHANGED overflow_checks

\* ts == UnixNanos::from(v), ts.partial_cmp(&UnixNanos::from(v))
CompareNanos(v) ==
    /\ ~Panicked
    /\ nres' = [op |-> "cmp_nanos", lhs |-> ts, rhs |-> from(v),
                out |-> Ok([eq |-> UnixNanos_eq(ts, from(v)),
                            cmp |-> UnixNanos_partial_cmp(ts, from(v))])]
    /\ UNCHANGED <<overflow_checks, ts>>

\* ts == v, ts.partial_cmp(&v)
CompareU64(v) ==
    /\ ~Panicked
    /\ nres' = [op |-> "cmp_u64", lhs |-> ts, rhs |-> v,
                out |-> Ok([eq |-> eq_u64(ts, v), cmp |-> partial_cmp_u64(ts, v)])]
    /\ UNCHANGED <<overflow_checks, ts>>

\* ts == o, ts.partial_cmp(&o) for o: Option<u64>
CompareOption(o) ==
    /\ ~Panicked
    /\ nres' = [op |-> "cmp_option", lhs |-> ts, rhs |-> o,
                out |-> Ok([eq |-> eq_option(ts, o), cmp |-> partial_cmp_option(ts, o)])]
    /\ UNCHANGED <<overflow_checks, ts>>

\* ts + rhs
Add(v) ==
    /\ ~Panicked
    /\ nres' = [op |-> "add", lhs |-> ts, rhs |-> v, out |-> add(ts, from(v), overflow_checks)]
    /\ UNCHANGED <<overflow_checks, ts>>

\* ts - rhs
Sub(v) ==
    /\ ~Panicked
    /\ nres' = [op |-> "sub", lhs |-> ts, rhs |-> v, out |-> sub(ts, from(v), overflow_checks)]
    /\ UNCHANGED <<overflow_checks, ts>>

\* ts += v
AddAssign(v) ==
    /\ ~Panicked
    /\ LET r == add_assign(ts, v, overflow_checks) IN
        /\ nres' = [op |-> "add_assign", lhs |-> ts, rhs |-> v, out |-> r]
        /\ ts' = IF r.tag = "Ok" THEN r.value ELSE ts
    /\ UNCHANGED overflow_checks

\* ts -= v
SubAssign(v) ==
    /\ ~Panicked
    /\ LET r == sub_assign(ts, v, overflow_checks) IN
        /\ nres' = [op |-> "sub_assign", lhs |-> ts, rhs |-> v, out |-> r]
        /\ ts' = IF r.tag = "Ok" THEN r.value ELSE ts
    /\ UNCHANGED overflow_checks

\* ts *= v
MulAssign(v) ==
    /\ ~Panicked
    /\ LET r == mul_assign(ts, v, overflow_checks) IN
        /\ nres' = [op |-> "mul_assign", lhs |-> ts, rhs |-> v, out |-> r]
        /\ ts' = IF r.tag = "Ok" THEN r.value ELSE ts
    /\ UNCHANGED overflow_checks

IdleInstrumentVars ==
    /\ input = <<>>
    /\ qty_one = <<>>
    /\ inst = None
    /\ result = NoOp

InitNanos == InitNanosVars /\ IdleInstrumentVars

NextNanos ==
    \/ \E v \in U64 : From(v) /\ UNCHANGED ivars
    \/ \E v \in U64 : CompareNanos(v) /\ UNCHANGED ivars
    \/ \E v \in U64 : CompareU64(v) /\ UNCHANGED ivars
    \/ \E o \in Option(U64) : CompareOption(o) /\ UNCHANGED ivars
    \/ \E v \in U64 : Add(v) /\ UNCHANGED ivars
    \/ \E v \in U64 : Sub(v) /\ UNCHANGED ivars
    \/ \E v \in U64 : AddAssign(v) /\ UNCHANGED ivars
    \/ \E v \in U64 : SubAssign(v) /\ UNCHANGED ivars
    \/ \E v \in U64 : MulAssign(v) /\ UNCHANGED ivars

SpecNanos == InitNanos /\ [][NextNanos]_vars

(***************************************************************************)
(* crypto_perpetual.rs                                                     *)
(***************************************************************************)
Precisions == 0 .. MaxPrecision
InstrumentIds == {"ETHUSDT-PERP.BINANCE", "XBTUSD.BITMEX"}
Decimals == {"0.0002", "0.0004"}

\* Price { raw: i64, precision: u8 } and Quantity { raw: u64, precision: u8 }
Prices == [raw : -1 .. MaxRaw, precision : Precisions]
Quantities == [raw : 0 .. MaxRaw, precision : Precisions]
LotSizes == [raw : 1 .. MaxRaw, precision : {0}]

\* the argument lists of new_checked / new
Inputs ==
    [id : InstrumentIds,
     raw_symbol : {"ETHUSDT"},
     base_currency : {"ETH"},
     quote_currency : {"USDT"},
     settlement_currency : {"USDT"},
     is_inverse : {FALSE},
     price_precision : Precisions,
     size_precision : Precisions,
     price_increment : Prices,
     size_increment : Quantities,
     maker_fee : Decimals,
     taker_fee : {"0.0004"},
     margin_init : {"0.00"},
     margin_maint : {"0.00"},
     lot_size : Option(LotSizes),
     max_quantity : {None},
     min_quantity : Option(LotSizes),
     max_notional : {None},
     min_notional : {None},
     max_price : {None},
     min_price : {None},
     ts_event : {UnixNanos(v) : v \in 0 .. MaxTs},
     ts_init : {UnixNanos(0)}]

\* nautilus_core::correctness::check_equal_u8
check_equal_u8(lhs, rhs, lhs_param, rhs_param) ==
    IF lhs = rhs
    THEN Ok(<<>>)
    ELSE Err([kind |-> "PrecisionMismatch", field_a |-> lhs_param, field_b |-> rhs_param])

\* nautilus_core::correctness::check_positive_i64
check_positive_i64(value, param) ==
    IF value > 0
    THEN Ok(<<>>)
    ELSE Err([kind |-> "NonPositiveIncrement", field |-> param])

\* nautilus_core::correctness::check_positive_u64
check_positive_u64(value, param) ==
    IF value > 0
    THEN Ok(<<>>)
    ELSE Err([kind |-> "NonPositiveIncrement", field |-> param])

\* Quantity::from(1): one constant Quantity for every call; the quantity module
\* fixes which, so every candidate is admitted
QuantitiesOfOne == [raw : 1 .. MaxRaw, precision : Precisions]
Quantity_from_1 == qty_one

\* Option::unwrap_or
unwrap_or(opt, default) == IF opt.some THEN opt.value ELSE default

\* the struct literal of new_checked: every argument stored as given, the lot
\* size defaulted
Construct(a, lot) ==
    [id |-> a.id,
     raw_symbol |-> a.raw_symbol,
     base_currency |-> a.base_currency,
     quote_currency |-> a.quote_currency,
     settlement_currency |-> a.settlement_currency,
     is_inverse |-> a.is_inverse,
     price_precision |-> a.price_precision,
     size_precision |-> a.size_precision,
     price_increment |-> a.price_increment,
     size_increment |-> a.size_increment,
     maker_fee |-> a.maker_fee,
     taker_fee |-> a.taker_fee,
     margin_init |-> a.margin_init,
     margin_maint |-> a.margin_maint,
     lot_size |-> lot,
     max_quantity |-> a.max_quantity,
     min_quantity |-> a.min_quantity,
     max_notional |-> a.max_notional,
     min_notional |-> a.min_notional,
     max_price |-> a.max_price,
     min_price |-> a.min_price,
     ts_event |-> a.ts_event,
     ts_init |-> a.ts_init]

\* the size increment's positivity check left out
new_checked_skips_size_increment(a) ==
    LET c1 == check_equal_u8(a.price_precision, a.price_increment.precision,
                             "price_precision", "price_increment.precision")
        c2 == check_equal_u8(a.size_precision, a.size_increment.precision,
                             "size_precision", "size_increment.precision")
        c3 == check_positive_i64(a.price_increment.raw, "price_increment.raw")
    IN  IF c1.tag = "Err" THEN c1
        ELSE IF c2.tag = "Err" THEN c2
        ELSE IF c3.tag = "Err" THEN c3
        ELSE Ok(Construct(a, unwrap_or(a.lot_size, Quantity_from_1)))

\* the increments checked before the precisions
new_checked_increments_first(a) ==
    LET c1 == check_equal_u8(a.price_precision, a.price_increment.precision,
                             "price_precision", "price_increment.precision")
        c2 == check_equal_u8(a.size_precision, a.size_increment.precision,
                             "size_precision", "size_increment.precision")
        c3 == check_positive_i64(a.price_increment.raw, "price_increment.raw")
        c4 == check_positive_u64(a.size_increment.raw, "size_increment.raw")
    IN  IF c3.tag = "Err" THEN c3
        ELSE IF c4.tag = "Err" THEN c4
        ELSE IF c1.tag = "Err" THEN c1
        ELSE IF c2.tag = "Err" THEN c2
        ELSE Ok(Construct(a, unwrap_or(a.lot_size, Quantity_from_1)))

\* the given lot size dropped: always the default
new_checked_ignores_lot_size(a) ==
    LET c1 == check_equal_u8(a.price_precision, a.price_increment.precision,
                             "price_precision", "price_increment.precision")
        c2 == check_equal_u8(a.size_precision, a.size_increment.precision,
                             "size_precision", "size_increment.precision")
        c3 == check_positive_i64(a.price_increment.raw, "price_increment.raw")
        c4 == check_positive_u64(a.size_increment.raw, "size_increment.raw")
    IN  IF c1.tag = "Err" THEN c1
        ELSE IF c2.tag = "Err" THEN c2
        ELSE IF c3.tag = "Err" THEN c3
        ELSE IF c4.tag = "Err" THEN c4
        ELSE Ok(Construct(a, Quantity_from_1))

\* CryptoPerpetual::new_checked: the four checks in order, each `?` returning
\* the first failure, then the struct
new_checked(a) ==
    LET c1 == check_equal_u8(a.price_precision, a.price_increment.precision,
                             "price_precision", "price_increment.precision")
        c2 == check_equal_u8(a.size_precision, a.size_increment.precision,
                             "size_precision", "size_increment.precision")
        c3 == check_positive_i64(a.price_increment.raw, "price_increment.raw")
        c4 == check_positive_u64(a.size_increment.raw, "size_increment.raw")
    IN  IF c1.tag = "Err" THEN c1
        ELSE IF c2.tag = "Err" THEN c2
        ELSE IF c3.tag = "Err" THEN c3
        ELSE IF c4.tag = "Err" THEN c4
        ELSE Ok(Construct(a, unwrap_or(a.lot_size, Quantity_from_1)))

\* a function that returns a plain value
Return(v) == [tag |-> "Return", value |-> v]

\* the struct built without going through the checks
new_unchecked(a) == Return(Construct(a, unwrap_or(a.lot_size, Quantity_from_1)))

\* CryptoPerpetual::new: new_checked(..).expect(..)
new(a) ==
    LET r == new_checked(a)
    IN  IF r.tag = "Ok"
        THEN Return(r.value)
        ELSE Panic("Failed to create CryptoPerpetual instance")

\* equality over every field, as a derive would give it
CryptoPerpetual_eq_all_fields(self, other) == self = other

\* impl PartialEq<Self> for CryptoPerpetual
CryptoPerpetual_eq(self, other) == self.id = other.id

\* impl Hash for CryptoPerpetual: the values written to the hasher, in order
CryptoPerpetual_hash(self) == <<self.id>>

\* the tag lost: the value wrapped as another variant
into_any_wrong_variant(self) == [variant |-> "CryptoFuture", value |-> self]

\* Instrument::into_any
into_any(self) == [variant |-> "CryptoPerpetual", value |-> self]

\* Instrument accessors of CryptoPerpetual
id(self) == self.id
price_precision(self) == self.price_precision
size_precision(self) == self.size_precision
min_quantity(self) == self.min_quantity
lot_size(self) == Some(self.lot_size)

\* the accessors of InstrumentAny: a match on the variant, delegating to the
\* held value
InstrumentAny_id(any) == id(any.value)
InstrumentAny_price_precision(any) == price_precision(any.value)
InstrumentAny_min_quantity(any) == min_quantity(any.value)

(***************************************************************************)
(* Instrument machine                                                      *)
(***************************************************************************)
\* a panic unwinds the caller: nothing runs after it
Aborted == result.out.tag = "Panic"

InitInstrumentVars ==
    /\ input \in Inputs
    /\ qty_one \in QuantitiesOfOne
    /\ inst = None
    /\ result = NoOp

\* let r = CryptoPerpetual::new_checked(input..); the caller keeps the Ok value
NewChecked ==
    /\ ~Aborted
    /\ LET r == new_checked(input) IN
        /\ result' = [op |-> "new_checked", lhs |-> <<>>, rhs |-> <<>>, out |-> r]
        /\ inst' = IF r.tag = "Ok" THEN Some(r.value) ELSE None
    /\ UNCHANGED <<input, qty_one>>

\* let p = CryptoPerpetual::new(input..)
New ==
    /\ ~Aborted
    /\ LET r == new(input) IN
        /\ result' = [op |-> "new", lhs |-> <<>>, rhs |-> <<>>, out |-> r]
        /\ inst' = IF r.tag = "Return" THEN Some(r.value) ELSE None
    /\ UNCHANGED <<input, qty_one>>

\* the held instrument's copy under the id i and with the maker fee f
Variant(p, i, f) == [p EXCEPT !.id = i, !.maker_fee = f]

\* p == other, and both hashed; other is the held instrument or its copy under
\* another id and/or with another maker fee
Equals(i, f) ==
    /\ ~Aborted
    /\ inst.some
    /\ LET other == Variant(inst.value, i, f) IN
        result' = [op |-> "eq", lhs |-> inst.value, rhs |-> other,
                   out |-> Return([eq |-> CryptoPerpetual_eq(inst.value, other),
                                   hash_lhs |-> CryptoPerpetual_hash(inst.value),
                                   hash_rhs |-> CryptoPerpetual_hash(other)])]
    /\ UNCHANGED <<input, qty_one, inst>>

\* p.into_any(): p is moved into the aggregate
IntoAny ==
    /\ ~Aborted
    /\ inst.some
    /\ result' = [op |-> "into_any", lhs |-> inst.value, rhs |-> <<>>,
                  out |-> Return(into_any(inst.value))]
    /\ inst' = None
    /\ UNCHANGED <<input, qty_one>>

IdleNanosVars ==
    /\ overflow_checks = FALSE
    /\ ts = UnixNanos(0)
    /\ nres = NoOp

Init == InitInstrumentVars /\ IdleNanosVars

Next ==
    \/ NewChecked /\ UNCHANGED nvars
    \/ New /\ UNCHANGED nvars
    \/ \E i \in InstrumentIds, f \in Decimals : Equals(i, f) /\ UNCHANGED nvars
    \/ IntoAny /\ UNCHANGED nvars

Spec == Init /\ [][Next]_vars

(***************************************************************************)
(* Properties of the instrument (checked under Spec)                       *)
(***************************************************************************)
\* the four conditions of the numeric precision contract, on the arguments a
ValidInput(a) ==
    /\ a.price_precision = a.price_increment.precision
    /\ a.size_precision = a.size_increment.precision
    /\ a.price_increment.raw > 0
    /\ a.size_increment.raw > 0

\* C1: new_checked returns Ok if and only if price_precision ==
\* price_increment.precision, size_precision == size_increment.precision,
\* price_increment.raw > 0 and size_increment.raw > 0; no other argument
\* (id, fee, lot size, bounds, timestamps) affects success or failure.
C1_OkIffValid ==
    result.op = "new_checked" =>
        /\ result.out.tag \in {"Ok", "Err"}
        /\ result.out.tag = "Ok" <=> ValidInput(input)

C1_Witness ==
    /\ result.op = "new_checked"
    /\ result.out.tag = "Ok"
    /\ input.lot_size = None
    /\ input.min_quantity = None
    /\ as_u64(input.ts_event) > as_u64(input.ts_init)

\* C2: a == b if and only if a.id == b.id, whatever the other fields; and
\* whenever a == b both feed the same data to the hasher.
C2_EqualityById ==
    result.op = "eq" =>
        /\ result.out.value.eq <=> (result.lhs.id = result.rhs.id)
        /\ result.out.value.eq => result.out.value.hash_lhs = result.out.value.hash_rhs

C2_Witness ==
    /\ result.op = "eq"
    /\ result.out.value.eq
    /\ result.lhs.maker_fee # result.rhs.maker_fee

\* C5: new returns an instrument, field for field the Ok value of new_checked,
\* if and only if new_checked returns Ok on the same arguments, and panics
\* whenever new_checked fails.
C5_NewSameValidation ==
    result.op = "new" =>
        /\ result.out.tag = "Return" <=> ValidInput(input)
        /\ result.out.tag = "Return" <=> new_checked(input).tag = "Ok"
        /\ result.out.tag = "Return" => result.out.value = new_checked(input).value
        /\ result.out.tag # "Return" => (result.out.tag = "Panic" /\ inst = None)

C5_Witness ==
    /\ result.op = "new"
    /\ result.out.tag = "Panic"
    /\ input.size_increment.raw = 0

\* the failure the arguments a must be reported with: the first violated
\* invariant in the order price precision, size precision, price increment,
\* size increment
FirstViolation(a) ==
    IF a.price_precision # a.price_increment.precision
    THEN [kind |-> "PrecisionMismatch",
          field_a |-> "price_precision", field_b |-> "price_increment.precision"]
    ELSE IF a.size_precision # a.size_increment.precision
    THEN [kind |-> "PrecisionMismatch",
          field_a |-> "size_precision", field_b |-> "size_increment.precision"]
    ELSE IF a.price_increment.raw <= 0
    THEN [kind |-> "NonPositiveIncrement", field |-> "price_increment.raw"]
    ELSE [kind |-> "NonPositiveIncrement", field |-> "size_increment.raw"]

\* C6: a failure of new_checked names the violated invariant (a precision
\* mismatch with the two fields, or a non-positive increment with its field),
\* the first one in the order price precision, size precision, price
\* increment, size increment; new_checked never panics.
C6_FailureNamesFirstViolation ==
    result.op = "new_checked" =>
        /\ result.out.tag # "Panic"
        /\ ~ValidInput(input) =>
               /\ result.out.tag = "Err"
               /\ result.out.error = FirstViolation(input)

C6_Witness ==
    /\ result.op = "new_checked"
    /\ result.out.tag = "Err"
    /\ input.price_precision # input.price_increment.precision
    /\ input.price_increment.raw < 0
    /\ input.size_increment.raw = 0
    /\ result.out.error.kind = "PrecisionMismatch"

\* C7 as stated: an absent lot_size becomes one unit at the instrument's size
\* precision; a present lot_size is stored as given; lot_size() returns the
\* stored lot size as a present value.
C7_DefaultLotAtSizePrecision ==
    inst.some =>
        /\ input.lot_size = None =>
               inst.value.lot_size = [qty_one EXCEPT !.precision = input.size_precision]
        /\ input.lot_size.some => inst.value.lot_size = input.lot_size.value
        /\ lot_size(inst.value) = Some(inst.value.lot_size)

\* C7 amended: an absent lot_size becomes the constant Quantity::from(1), the
\* same quantity whatever the size increment and size precision of the
\* instrument; a present lot_size is stored as given; lot_size() returns the
\* stored lot size as a present value.
C7_DefaultLotIsConstant ==
    inst.some =>
        /\ input.lot_size = None => inst.value.lot_size = qty_one
        /\ input.lot_size.some => inst.value.lot_size = input.lot_size.value
        /\ lot_size(inst.value) = Some(inst.value.lot_size)

C7_Witness ==
    /\ inst.some
    /\ result.op = "new_checked"
    /\ input.lot_size = None
    /\ inst.value.size_precision # qty_one.precision
    /\ inst.value.lot_size = qty_one

\* C8: into_any(p) succeeds, yields the aggregate of the CryptoPerpetual
\* variant holding p with every field unchanged, and the aggregate reports the
\* id, price_precision and min_quantity of p.
C8_IntoAnyPreserves ==
    result.op = "into_any" =>
        /\ result.out.tag = "Return"
        /\ result.out.value.variant = "CryptoPerpetual"
        /\ result.out.value.value = result.lhs
        /\ InstrumentAny_id(result.out.value) = id(result.lhs)
        /\ InstrumentAny_price_precision(result.out.value) = price_precision(result.lhs)
        /\ InstrumentAny_min_quantity(result.out.value) = min_quantity(result.lhs)

C8_Witness ==
    /\ result.op = "into_any"
    /\ result.lhs.min_quantity.some
    /\ result.lhs.price_precision = MaxPrecision
    /\ inst = None

(***************************************************************************)
(* Properties of the timestamp type (checked under SpecNanos)              *)
(***************************************************************************)
IsSubtraction == nres.op \in {"sub", "sub_assign"}
IsGrowth == nres.op \in {"add", "add_assign", "mul_assign"}

\* the mathematical (unbounded) result of the last add / += / *=
Exact == IF nres.op = "mul_assign" THEN as_u64(nres.lhs) * nres.rhs
                                   ELSE as_u64(nres.lhs) + nres.rhs

\* C3: for t1 <= t2, t2 - t1 (Sub and SubAssign) succeeds with raw value
\* t2.raw - t1.raw; for t1 < t2, t1 - t2 ends in a failure and never yields a
\* wrapped value.
C3_SubtractionChecked ==
    IsSubtraction =>
        IF nres.rhs <= as_u64(nres.lhs)
        THEN nres.out = Ok(UnixNanos(as_u64(nres.lhs) - nres.rhs))
        ELSE nres.out.tag = "Panic"

\* C4: for every timestamp t (t = 0 included), against an absent Option<u64>:
\* t == None is false, t != None is true, t.partial_cmp(None) is Greater, so
\* t > None holds and t < None, t <= None never hold.
C4_AbsentComparesBelow ==
    (nres.op = "cmp_option" /\ ~nres.rhs.some) =>
        /\ nres.out.value.eq = FALSE
        /\ ne(nres.out.value.eq)
        /\ nres.out.value.cmp = Some("Greater")
        /\ gt(nres.out.value.cmp)
        /\ ~lt(nres.out.value.cmp)
        /\ ~le(nres.out.value.cmp)

C4_Witness ==
    /\ nres.op = "cmp_option"
    /\ nres.rhs = None
    /\ nres.lhs = UnixNanos(0)

\* the verdicts eq / cmp agree with the comparison of the raw integers a and b
AgreesWithRaw(verdict, a, b) ==
    /\ verdict.eq <=> (a = b)
    /\ lt(verdict.cmp) <=> (a < b)
    /\ gt(verdict.cmp) <=> (a > b)
    /\ le(verdict.cmp) <=> (a <= b)
    /\ ge(verdict.cmp) <=> (a >= b)

\* C9: comparing a timestamp t with UnixNanos::from(v), with the integer v and
\* with Some(v) gives the verdict of comparing t.as_u64() with v, and
\* UnixNanos::from(v).as_u64() == v.
C9_ValueBasedComparison ==
    /\ nres.op = "cmp_nanos" =>
           AgreesWithRaw(nres.out.value, as_u64(nres.lhs), as_u64(nres.rhs))
    /\ nres.op = "cmp_u64" =>
           AgreesWithRaw(nres.out.value, as_u64(nres.lhs), nres.rhs)
    /\ (nres.op = "cmp_option" /\ nres.rhs.some) =>
           AgreesWithRaw(nres.out.value, as_u64(nres.lhs), nres.rhs.value)
    /\ nres.op = "from" =>
           /\ as_u64(nres.out.value) = nres.rhs
           /\ into_u64(nres.out.value) = nres.rhs

C9_Witness ==
    /\ nres.op = "cmp_option"
    /\ nres.rhs.some
    /\ as_u64(nres.lhs) < nres.rhs.value
    /\ lt(nres.out.value.cmp)

\* C10 as stated: add, += and *= complete without failure for every pair of
\* operands, also when the mathematical sum or product is >= 2^64.
C10_ArithmeticTotal ==
    IsGrowth => nres.out.tag = "Ok"

\* C10 amended: add, += and *= complete with the exact sum or product whenever
\* it is below 2^64; otherwise the operation panics in a build with overflow
\* checks and yields the result modulo 2^64 in a build without them.
C10_ArithmeticExactInRange ==
    IsGrowth =>
        IF Exact < Modulus
        THEN nres.out = Ok(UnixNanos(Exact))
        ELSE IF overflow_checks
             THEN nres.out.tag = "Panic"
             ELSE nres.out = Ok(UnixNanos(Exact % Modulus))

C10_Witness ==
    /\ nres.op = "mul_assign"
    /\ as_u64(nres.lhs) > 1
    /\ nres.rhs > 1
    /\ Exact < Modulus
    /\ nres.out.tag = "Ok"
    /\ ts = nres.out.value

====
